---- MODULE Spec2Model ----
(***************************************************************************)
(* Model of src/src/lib.rs: Queue<T>, a linked queue addressed through     *)
(* atomic pointers.  Every atomic load and compare_and_swap of enqueue     *)
(* and dequeue is one action; all of them are SeqCst, so an execution is   *)
(* an interleaving of these steps.  Nodes are never freed (lib.rs:91), so  *)
(* a node is a fresh index into the sequences next and value.              *)
(***************************************************************************)
EXTENDS Integers, Sequences, FiniteSets

\* ------------------------------------------------------------ bounds
\* the total numbers of enqueue and of dequeue calls made
MaxEnq == 2
MaxDeq == 2

\* the calling threads, and the values they enqueue (two values tell the nodes of
\* two enqueues apart and also allow equal values in different nodes)
Threads == {1, 2}
Values == {1, 2}

\* ------------------------------------------------------------ constants
\* ptr::null_mut()
Null == 0
\* Option::None, as a node's value and as dequeue's result
None == 0
\* the node allocated by Queue::new
Sentinel == 1
\* no thread runs alone
NoThread == {}

VARIABLES
    head,     \* Queue.head
    tail,     \* Queue.tail
    next,     \* next[n]: Node.next of node n (a sequence over the allocated nodes)
    value,    \* value[n]: Node.value of node n (None or a value)
    pc,       \* pc[t]: the statement thread t executes next
    loc,      \* loc[t]: the local variables of thread t's call
    ops,      \* history: the calls made so far, in call order
    solo      \* {t} when thread t runs alone (SoloSpec), or NoThread

vars == <<head, tail, next, value, pc, loc, ops, solo>>

\* The locals of enqueue (new_tail, tail, true_tail) and of dequeue (head, tail,
\* first_node, new_first_node); a call starts with all of them unset.
NoLocals ==
    [new_tail |-> Null, tail |-> Null, true_tail |-> Null,
     head |-> Null, first_node |-> Null, new_first_node |-> Null]

\* ------------------------------------------------------------ history
\* A call: its thread, its kind ("enq" or "deq"), its argument, whether it has
\* returned and with what result (None also for an enqueue, which returns no
\* value), the calls that had returned when it was made (the real-time order),
\* and its node: the node an enqueue allocates, the node a dequeue has taken its
\* result from.
Op(t, kind, arg, node, before) ==
    [thr |-> t, kind |-> kind, arg |-> arg, done |-> FALSE, res |-> None,
     node |-> node, before |-> before]

Completed == {i \in DOMAIN ops : ops[i].done}

\* the call thread t is executing
CurOp(t) == CHOOSE i \in DOMAIN ops : ops[i].thr = t /\ ~ops[i].done

Calls(kind) == {i \in DOMAIN ops : ops[i].kind = kind}

\* thread t's call returns r, taken from node n
SetRes(t, r, n) ==
    [ops EXCEPT ![CurOp(t)].done = TRUE, ![CurOp(t)].res = r, ![CurOp(t)].node = n]

\* ------------------------------------------------------------ atomics
\* AtomicPtr::compare_and_swap(current, new): the value stored afterwards
CompareAndSwap(cell, current, new) == IF cell = current THEN new ELSE cell

\* ------------------------------------------------------------ Queue::new
Init ==
    /\ head = Sentinel
    /\ tail = Sentinel
    /\ next = <<Null>>
    /\ value = <<None>>
    /\ pc = [t \in Threads |-> "idle"]
    /\ loc = [t \in Threads |-> NoLocals]
    /\ ops = <<>>
    /\ solo = NoThread

\* ------------------------------------------------------------ Queue::enqueue
\* line 42: allocate the node
EnqCall(t, v) ==
    /\ pc[t] = "idle"
    /\ Cardinality(Calls("enq")) < MaxEnq
    /\ next' = Append(next, Null)
    /\ value' = Append(value, v)
    /\ loc' = [loc EXCEPT ![t] = [NoLocals EXCEPT !.new_tail = Len(next) + 1]]
    /\ ops' = Append(ops, Op(t, "enq", v, Len(next) + 1, Completed))
    /\ pc' = [pc EXCEPT ![t] = "enq_load_tail"]
    /\ UNCHANGED <<head, tail, solo>>

\* line 46
EnqLoadTail(t) ==
    /\ pc[t] = "enq_load_tail"
    /\ loc' = [loc EXCEPT ![t].tail = tail]
    /\ pc' = [pc EXCEPT ![t] = "enq_load_next"]
    /\ UNCHANGED <<head, tail, next, value, ops, solo>>

\* lines 48-49
EnqLoadNext(t) ==
    /\ pc[t] = "enq_load_next"
    /\ loc' = [loc EXCEPT ![t].true_tail = next[loc[t].tail]]
    /\ pc' = [pc EXCEPT ![t] =
                IF next[loc[t].tail] # Null THEN "enq_help" ELSE "enq_link"]
    /\ UNCHANGED <<head, tail, next, value, ops, solo>>

\* line 52
EnqHelp(t) ==
    /\ pc[t] = "enq_help"
    /\ tail' = CompareAndSwap(tail, loc[t].tail, loc[t].true_tail)
    /\ pc' = [pc EXCEPT ![t] = "enq_link"]
    /\ UNCHANGED <<head, next, value, loc, ops, solo>>

\* Mutant of EnqLink: the new node is pushed in front of the chain, after head,
\* instead of being linked after the tail snapshot.
EnqLinkFront(t) ==
    /\ pc[t] = "enq_link"
    /\ next' = [next EXCEPT ![loc[t].new_tail] = next[head], ![head] = loc[t].new_tail]
    /\ pc' = [pc EXCEPT ![t] = "enq_swing"]
    /\ loc' = [loc EXCEPT ![t].true_tail = Null]
    /\ UNCHANGED <<head, tail, value, ops, solo>>

\* lines 54-61
EnqLink(t) ==
    /\ pc[t] = "enq_link"
    /\ next' = [next EXCEPT ![loc[t].tail] =
                  CompareAndSwap(next[loc[t].tail], Null, loc[t].new_tail)]
    /\ IF next[loc[t].tail] # Null
       THEN \* continue: tail and true_tail are read again
            /\ pc' = [pc EXCEPT ![t] = "enq_load_tail"]
            /\ loc' = [loc EXCEPT ![t] =
                         [NoLocals EXCEPT !.new_tail = loc[t].new_tail]]
       ELSE /\ pc' = [pc EXCEPT ![t] = "enq_swing"]
            /\ loc' = [loc EXCEPT ![t].true_tail = Null]
    /\ UNCHANGED <<head, tail, value, ops, solo>>

\* lines 65-66
EnqSwing(t) ==
    /\ pc[t] = "enq_swing"
    /\ tail' = CompareAndSwap(tail, loc[t].tail, loc[t].new_tail)
    /\ ops' = SetRes(t, None, loc[t].new_tail)
    /\ loc' = [loc EXCEPT ![t] = NoLocals]
    /\ pc' = [pc EXCEPT ![t] = "idle"]
    /\ UNCHANGED <<head, next, value, solo>>

\* ------------------------------------------------------------ Queue::dequeue
\* line 68
DeqCall(t) ==
    /\ pc[t] = "idle"
    /\ Cardinality(Calls("deq")) < MaxDeq
    /\ ops' = Append(ops, Op(t, "deq", None, Null, Completed))
    /\ loc' = [loc EXCEPT ![t] = NoLocals]
    /\ pc' = [pc EXCEPT ![t] = "deq_load_head"]
    /\ UNCHANGED <<head, tail, next, value, solo>>

\* line 71
DeqLoadHead(t) ==
    /\ pc[t] = "deq_load_head"
    /\ loc' = [loc EXCEPT ![t].head = head]
    /\ pc' = [pc EXCEPT ![t] = "deq_load_tail"]
    /\ UNCHANGED <<head, tail, next, value, ops, solo>>

\* line 72
DeqLoadTail(t) ==
    /\ pc[t] = "deq_load_tail"
    /\ loc' = [loc EXCEPT ![t].tail = tail]
    /\ pc' = [pc EXCEPT ![t] = "deq_load_first"]
    /\ UNCHANGED <<head, tail, next, value, ops, solo>>

\* lines 74-79, 83 and 97: load head's next-reference and branch on the snapshots
DeqLoadFirst(t) ==
    /\ pc[t] = "deq_load_first"
    /\ LET first_node == next[loc[t].head]
       IN  IF loc[t].head = loc[t].tail
           THEN IF first_node = Null
                THEN \* observed empty: break, return None
                     /\ ops' = SetRes(t, None, Null)
                     /\ loc' = [loc EXCEPT ![t] = NoLocals]
                     /\ pc' = [pc EXCEPT ![t] = "idle"]
                ELSE /\ loc' = [loc EXCEPT ![t].first_node = first_node]
                     /\ pc' = [pc EXCEPT ![t] = "deq_help"]
                     /\ UNCHANGED ops
           ELSE IF first_node = Null
                THEN \* assert!(!first_node.is_null()) fails: the call panics
                     /\ loc' = [loc EXCEPT ![t] = NoLocals]
                     /\ pc' = [pc EXCEPT ![t] = "panic"]
                     /\ UNCHANGED ops
                ELSE /\ loc' = [loc EXCEPT ![t].first_node = first_node]
                     /\ pc' = [pc EXCEPT ![t] = "deq_load_new_first"]
                     /\ UNCHANGED ops
    /\ UNCHANGED <<head, tail, next, value, solo>>

\* line 80
DeqHelp(t) ==
    /\ pc[t] = "deq_help"
    /\ tail' = CompareAndSwap(tail, loc[t].tail, loc[t].first_node)
    /\ loc' = [loc EXCEPT ![t] = NoLocals]
    /\ pc' = [pc EXCEPT ![t] = "deq_load_head"]
    /\ UNCHANGED <<head, next, value, ops, solo>>

\* line 84
DeqLoadNewFirst(t) ==
    /\ pc[t] = "deq_load_new_first"
    /\ loc' = [loc EXCEPT ![t].new_first_node = next[loc[t].first_node]]
    /\ pc' = [pc EXCEPT ![t] = "deq_cas"]
    /\ UNCHANGED <<head, tail, next, value, ops, solo>>

\* Mutant of DeqCas: a plain store in place of the compare_and_swap, so that the
\* removal succeeds whatever head's next-reference holds.
DeqCasNoCompare(t) ==
    /\ pc[t] = "deq_cas"
    /\ next' = [next EXCEPT ![loc[t].head] = loc[t].new_first_node]
    /\ pc' = [pc EXCEPT ![t] =
                IF loc[t].new_first_node = Null THEN "deq_reset_tail" ELSE "deq_take"]
    /\ UNCHANGED <<head, tail, value, loc, ops, solo>>

\* Mutant of DeqCas: the compare_and_swap fails spuriously (as a weak
\* compare-exchange may), whatever head's next-reference holds.
DeqCasSpurious(t) ==
    /\ pc[t] = "deq_cas"
    /\ pc' = [pc EXCEPT ![t] = "deq_load_head"]
    /\ loc' = [loc EXCEPT ![t] = NoLocals]
    /\ UNCHANGED <<head, tail, next, value, ops, solo>>

\* Mutant of DeqCas: the removal advances head to the first node (as the
\* Michael-Scott dequeue does) instead of rewriting head's next-reference.
DeqCasAdvanceHead(t) ==
    /\ pc[t] = "deq_cas"
    /\ IF head = loc[t].head /\ next[loc[t].head] = loc[t].first_node
       THEN /\ head' = loc[t].first_node
            /\ pc' = [pc EXCEPT ![t] =
                        IF loc[t].new_first_node = Null
                        THEN "deq_reset_tail" ELSE "deq_take"]
            /\ UNCHANGED loc
       ELSE /\ head' = head
            /\ pc' = [pc EXCEPT ![t] = "deq_load_head"]
            /\ loc' = [loc EXCEPT ![t] = NoLocals]
    /\ UNCHANGED <<tail, next, value, ops, solo>>

\* Mutant of DeqCas: a dequeue whose removal CAS fails stores the first node it
\* had read back into head's next-reference before trying again.
DeqCasRestore(t) ==
    /\ pc[t] = "deq_cas"
    /\ IF next[loc[t].head] = loc[t].first_node
       THEN /\ next' = [next EXCEPT ![loc[t].head] = loc[t].new_first_node]
            /\ pc' = [pc EXCEPT ![t] =
                        IF loc[t].new_first_node = Null
                        THEN "deq_reset_tail" ELSE "deq_take"]
            /\ UNCHANGED loc
       ELSE /\ next' = [next EXCEPT ![loc[t].head] = loc[t].first_node]
            /\ pc' = [pc EXCEPT ![t] = "deq_load_head"]
            /\ loc' = [loc EXCEPT ![t] = NoLocals]
    /\ UNCHANGED <<head, tail, value, ops, solo>>

\* lines 85-87 and 94
DeqCas(t) ==
    /\ pc[t] = "deq_cas"
    /\ next' = [next EXCEPT ![loc[t].head] =
                  CompareAndSwap(next[loc[t].head], loc[t].first_node,
                                 loc[t].new_first_node)]
    /\ IF next[loc[t].head] = loc[t].first_node
       THEN /\ pc' = [pc EXCEPT ![t] =
                        IF loc[t].new_first_node = Null
                        THEN "deq_reset_tail" ELSE "deq_take"]
            /\ UNCHANGED loc
       ELSE /\ pc' = [pc EXCEPT ![t] = "deq_load_head"]
            /\ loc' = [loc EXCEPT ![t] = NoLocals]
    /\ UNCHANGED <<head, tail, value, ops, solo>>

\* Mutant of DeqResetTail: tail is left on the removed node.
DeqResetTailSkipped(t) ==
    /\ pc[t] = "deq_reset_tail"
    /\ pc' = [pc EXCEPT ![t] = "deq_take"]
    /\ UNCHANGED <<head, tail, next, value, loc, ops, solo>>

\* Mutant of DeqResetTail: tail is set to new_first_node, which is null there,
\* instead of head.
DeqResetTailToNewFirst(t) ==
    /\ pc[t] = "deq_reset_tail"
    /\ tail' = CompareAndSwap(tail, loc[t].tail, loc[t].new_first_node)
    /\ pc' = [pc EXCEPT ![t] = "deq_take"]
    /\ UNCHANGED <<head, next, value, loc, ops, solo>>

\* line 89
DeqResetTail(t) ==
    /\ pc[t] = "deq_reset_tail"
    /\ tail' = CompareAndSwap(tail, loc[t].tail, loc[t].head)
    /\ pc' = [pc EXCEPT ![t] = "deq_take"]
    /\ UNCHANGED <<head, next, value, loc, ops, solo>>

\* line 92
DeqTake(t) ==
    /\ pc[t] = "deq_take"
    /\ value' = [value EXCEPT ![loc[t].first_node] = None]
    /\ ops' = SetRes(t, value[loc[t].first_node], loc[t].first_node)
    /\ loc' = [loc EXCEPT ![t] = NoLocals]
    /\ pc' = [pc EXCEPT ![t] = "idle"]
    /\ UNCHANGED <<head, tail, next, solo>>

\* ------------------------------------------------------------ specification
\* one step of thread t inside a call it has made
Step(t) ==
    \/ EnqLoadTail(t)
    \/ EnqLoadNext(t)
    \/ EnqHelp(t)
    \/ EnqLink(t)
    \/ EnqSwing(t)
    \/ DeqLoadHead(t)
    \/ DeqLoadTail(t)
    \/ DeqLoadFirst(t)
    \/ DeqHelp(t)
    \/ DeqLoadNewFirst(t)
    \/ DeqCas(t)
    \/ DeqResetTail(t)
    \/ DeqTake(t)

Call(t) ==
    \/ \E v \in Values : EnqCall(t, v)
    \/ DeqCall(t)

Next == \E t \in Threads : Call(t) \/ Step(t)

Spec == Init /\ [][Next]_vars

\* Threads are scheduled fairly: a thread inside a call keeps taking steps.
FairSpec == Spec /\ \A t \in Threads : WF_vars(Step(t))

\* ------------------------------------------------------------ running alone
\* From any state, a thread inside a call may be the only one that runs from
\* then on: the other threads stay where they are, in the middle of their calls.
GoSolo(t) ==
    /\ solo = NoThread
    /\ pc[t] \notin {"idle", "panic"}
    /\ solo' = {t}
    /\ UNCHANGED <<head, tail, next, value, pc, loc, ops>>

SoloStep(t) == solo = {t} /\ Step(t)

SoloNext ==
    \/ solo = NoThread /\ Next
    \/ \E t \in Threads : GoSolo(t)
    \/ \E t \in Threads : SoloStep(t)

SoloSpec == Init /\ [][SoloNext]_vars /\ \A t \in Threads : WF_vars(SoloStep(t))

\* ------------------------------------------------------------ the list
Nodes == DOMAIN next

\* the nodes met by following next-references from n, n first, in at most k steps
RECURSIVE ChainFrom(_, _)
ChainFrom(n, k) ==
    IF n = Null \/ k = 0 THEN <<>> ELSE <<n>> \o ChainFrom(next[n], k - 1)

\* the chain reachable from head
Chain == ChainFrom(head, Len(next))

Reachable == {Chain[i] : i \in DOMAIN Chain}

\* no call is in progress: every call has returned, or has unwound out of
\* dequeue through the failed assert of line 83
Quiescent == \A t \in Threads : pc[t] \in {"idle", "panic"}

\* thread t has won the removal CAS of line 85 and has not yet returned
PostWin(t) == pc[t] \in {"deq_reset_tail", "deq_take"}

\* node n has been removed by a winning dequeue CAS
Removed(n) ==
    \/ value[n] = None /\ n # Sentinel
    \/ \E t \in Threads : PostWin(t) /\ loc[t].first_node = n

\* the thread whose enqueue allocated node n
Owner(n) == ops[CHOOSE i \in DOMAIN ops : ops[i].kind = "enq" /\ ops[i].node = n].thr

SingleCaller == \A i, j \in DOMAIN ops : ops[i].thr = ops[j].thr

\* ------------------------------------------------------------ claims

\* C1: no enqueued value is lost. In every state where no call is in progress,
\* every node whose value no dequeue has returned (all enqueues have returned
\* there) is reachable from head through next-references.
C1_NoValueLost ==
    Quiescent => \A n \in Nodes : value[n] # None => n \in Reachable

\* C2: no value is duplicated. The dequeues that have won the removal CAS and not
\* yet returned hold pairwise different nodes, and the node each of them holds
\* still has its value: no node wins the CAS twice, and the winner never takes an
\* empty value.
C2_NoDuplicate ==
    \A t \in Threads : PostWin(t) =>
        /\ loc[t].first_node \in Nodes \ {Sentinel}
        /\ value[loc[t].first_node] # None
        /\ \A u \in Threads \ {t} :
              PostWin(u) => loc[u].first_node # loc[t].first_node

\* C2 witness: two dequeues have both won the removal CAS (of different nodes) and
\* neither has returned yet.
C2_Witness ==
    \E t, u \in Threads : t # u /\ PostWin(t) /\ PostWin(u)

\* The calls can be ordered into a sequential FIFO history: starting from the
\* calls in done with abstract queue q, the remaining returned calls (and any of
\* the pending ones) can be put one after the other, each after every call that
\* returned before it was made, each with the result it returned.
RECURSIVE Lin(_, _)
Lin(done, q) ==
    \/ Completed \subseteq done
    \/ \E i \in DOMAIN ops \ done :
          /\ ops[i].before \subseteq done
          /\ IF ops[i].kind = "enq"
             THEN Lin(done \cup {i}, Append(q, ops[i].arg))
             ELSE IF q = <<>>
                  THEN (ops[i].done => ops[i].res = None) /\ Lin(done \cup {i}, q)
                  ELSE (ops[i].done => ops[i].res = Head(q))
                       /\ Lin(done \cup {i}, Tail(q))

\* C3: the queue is linearizable. In every reachable state the history of calls
\* made so far has a linearization as a sequential FIFO queue.
C3_Linearizable == Lin({}, <<>>)

\* C4 (step): when a dequeue wins the removal CAS of node a, no node b that the
\* same thread enqueued after a has been removed before.
C4_RemovalOrder ==
    \A t \in Threads :
        (pc[t] = "deq_cas" /\ PostWin(t)') =>
            \A b \in Nodes \ {Sentinel} :
                (b > loc[t].first_node /\ Owner(b) = Owner(loc[t].first_node))
                    => ~Removed(b)

\* C4 (consumer): one consumer thread receives the values of one producer in the
\* order the producer enqueued them.
C4_ConsumerOrder ==
    \A i, j \in Completed :
        (/\ i < j
         /\ ops[i].kind = "deq" /\ ops[j].kind = "deq"
         /\ ops[i].thr = ops[j].thr
         /\ ops[i].node # Null /\ ops[j].node # Null
         /\ Owner(ops[i].node) = Owner(ops[j].node))
            => ops[i].node < ops[j].node

\* C4: per-producer FIFO. The nodes one thread enqueued are removed in the order
\* it enqueued them, under every interleaving, and so a single consumer never
\* receives a later value of a producer before an earlier one.
C4_PerProducerFifo == [][C4_RemovalOrder]_vars /\ []C4_ConsumerOrder

\* C4 witness: two nodes enqueued by one thread have both been returned by
\* dequeues, while the other thread was making calls too.
C4_Witness ==
    /\ ~SingleCaller
    /\ \E i, j \in Completed :
          /\ ops[i].kind = "deq" /\ ops[j].kind = "deq"
          /\ ops[i].node # Null /\ ops[j].node # Null
          /\ ops[i].node # ops[j].node
          /\ Owner(ops[i].node) = Owner(ops[j].node)

\* The calls from the i-th on return what a sequential FIFO queue holding q
\* returns; a call that has not returned yet is not held to any result.
RECURSIVE Replay(_, _)
Replay(i, q) ==
    IF i > Len(ops) THEN TRUE
    ELSE IF ops[i].kind = "enq"
         THEN Replay(i + 1, Append(q, ops[i].arg))
         ELSE IF q = <<>>
              THEN (ops[i].done => ops[i].res = None) /\ Replay(i + 1, q)
              ELSE (ops[i].done => ops[i].res = Head(q)) /\ Replay(i + 1, Tail(q))

\* C5: with a single calling thread, every call returns what a sequential FIFO
\* queue returns (the oldest value not yet dequeued, or None), and none panics.
C5_SequentialFifo ==
    SingleCaller => (\A t \in Threads : pc[t] # "panic") /\ Replay(1, <<>>)

\* C5 witness: one thread alone has enqueued two different values and received
\* both from dequeues, and all its calls have returned.
C5_Witness ==
    /\ SingleCaller
    /\ Quiescent
    /\ \E i, j \in Completed :
          /\ i < j
          /\ ops[i].kind = "deq" /\ ops[j].kind = "deq"
          /\ ops[i].res # None /\ ops[j].res # None /\ ops[i].res # ops[j].res

\* the values enqueued and the values returned by dequeues among the calls before j
EnqBefore(j) == {i \in 1..(j - 1) : ops[i].kind = "enq"}
DeqValueBefore(j) == {i \in 1..(j - 1) : ops[i].kind = "deq" /\ ops[i].res # None}

\* call j was made when every earlier call had returned and every enqueued value
\* had been dequeued
DrainedAt(j) ==
    /\ ops[j].before = 1..(j - 1)
    /\ Cardinality(EnqBefore(j)) = Cardinality(DeqValueBefore(j))

\* C6 (step): a dequeue made on a drained queue with no call in progress, and
\* running with no later call, writes neither head, tail nor a next-reference,
\* does not panic, and returns None.
C6_EmptyDequeueStep ==
    \A t \in Threads :
        (/\ pc[t] \in {"deq_load_head", "deq_load_tail", "deq_load_first", "deq_help",
                       "deq_load_new_first", "deq_cas", "deq_reset_tail", "deq_take"}
         /\ pc'[t] # pc[t]
         /\ CurOp(t) = Len(ops)
         /\ DrainedAt(CurOp(t)))
            => /\ UNCHANGED <<head, tail, next>>
               /\ pc'[t] # "panic"
               /\ pc'[t] = "idle" => ops'[CurOp(t)].res = None

\* C6 (next value): an enqueue made on a drained queue with no call in progress,
\* followed by a dequeue made after it returned and returning before any other
\* call is made: the dequeue returns the enqueue's value.
C6_NextValue ==
    \A j \in Completed :
        (/\ j > 1
         /\ ops[j].kind = "deq"
         /\ ops[j - 1].kind = "enq"
         /\ DrainedAt(j - 1)
         /\ ops[j].before = 1..(j - 1)
         /\ \A k \in DOMAIN ops : k > j => j \in ops[k].before)
            => ops[j].res = ops[j - 1].arg

\* C6: once every enqueued value has been dequeued and no call is in progress,
\* dequeue returns None, leaves head, tail and every next-reference unchanged, and
\* does so on every further call until an enqueue is made, whose value the
\* following dequeue returns.
C6_EmptyWhenDrained == [][C6_EmptyDequeueStep]_vars /\ []C6_NextValue

\* C7: the assertion of line 83 never fails: no dequeue that has read different
\* head and tail snapshots reads a null next-reference from head, so no call panics.
C7_AssertNeverFails == \A t \in Threads : pc[t] # "panic"

\* C8: lock-free progress. With finitely many calls and every thread that is
\* inside a call taking steps, every call returns.
C8_EveryCallReturns == \A t \in Threads : (pc[t] # "idle") ~> (pc[t] = "idle")

\* C9: no call waits on another thread. From whatever state a thread starts to run
\* alone, the other threads stopped in the middle of their calls, its call returns.
C9_SoloCallReturns == \A t \in Threads : (solo = {t}) ~> (pc[t] = "idle")

\* C10: tail references a node of the chain reachable from head, the last one or
\* the one before the last.
C10_TailNearEnd ==
    /\ tail \in Reachable
    /\ next[tail] = Null \/ next[next[tail]] = Null

\* C11 (step): an enqueue's link CAS succeeds only on the last node of the chain
\* reachable from head, and its new node is reachable from head right after.
C11_LinkStep ==
    \A t \in Threads :
        (pc[t] = "enq_link" /\ pc'[t] = "enq_swing") =>
            /\ loc[t].tail \in Reachable
            /\ next[loc[t].tail] = Null
            /\ loc[t].new_tail \in Reachable'

\* C11: at the moment an enqueue's link CAS succeeds, the node it links after is
\* the last node of the chain reachable from head (never a removed node), so the
\* new node becomes reachable from head.
C11_LinkedReachable == [][C11_LinkStep]_vars

\* C12 (step): the value nodes reachable from head after a winning removal CAS are
\* those reachable before it, without the first.
C12_RemoveStep ==
    \A t \in Threads :
        (pc[t] = "deq_cas" /\ PostWin(t)') => Tail(Chain') = Tail(Tail(Chain))

\* C12: a successful dequeue CAS on head's next-reference removes exactly one
\* node, the first, also when an enqueue has linked a node after the first node
\* since the dequeue read that node's next-reference.
C12_RemovesExactlyOne == [][C12_RemoveStep]_vars

\* the walk from head, given one step more than there are nodes
Walk == ChainFrom(head, Len(next) + 1)

\* C13: the list is well formed. head and tail reference allocated nodes (never
\* null), and following next-references from head visits pairwise distinct nodes
\* and ends at a node whose next-reference is null.
C13_WellFormed ==
    /\ head # Null /\ head \in Nodes
    /\ tail # Null /\ tail \in Nodes
    /\ Len(Walk) <= Len(next)
    /\ \A i, j \in DOMAIN Walk : i # j => Walk[i] # Walk[j]
    /\ next[Walk[Len(Walk)]] = Null

\* C13 witness: the chain holds a value node while another node has already been
\* removed from it: enqueue and dequeue have both rewritten the list.
C13_Witness ==
    /\ Len(Chain) >= 2
    /\ \E n \in Nodes : Removed(n)

\* C14 (step): an enqueue that has observed a non-null next-reference on its tail
\* snapshot goes from the helping CAS back to re-reading tail, and does not link
\* its node in that iteration.
C14_HelpStep ==
    \A t \in Threads :
        /\ (pc[t] = "enq_help" /\ pc'[t] # pc[t]) => pc'[t] = "enq_load_tail"
        /\ (pc[t] = "enq_link" /\ loc[t].true_tail # Null) => pc'[t] # "enq_swing"

\* C14: in a loop iteration in which enqueue observes a non-null next-reference N
\* on its tail snapshot T, it attempts the helping CAS of tail from T to N and
\* restarts the loop; it neither attempts to link nor links its node.
C14_HelpThenRetry == [][C14_HelpStep]_vars

\* the enqueue call that allocated node n
EnqOp(n) == CHOOSE i \in DOMAIN ops : ops[i].kind = "enq" /\ ops[i].node = n

\* the nodes holding a pending value: the enqueue has returned and no dequeue has
\* removed the node
PendingNodes == {n \in Nodes \ {Sentinel} : ops[EnqOp(n)].done /\ ~Removed(n)}

\* node n was enqueued before node m: n's enqueue returned before m's was called
Older(n, m) == EnqOp(n) \in ops[EnqOp(m)].before

\* C15: head references a placeholder node that holds no pending value, and when
\* there is a value enqueued and not yet dequeued, head's immediate successor is a
\* node not yet removed and no pending value is older than the one it holds.
C15_HeadIsPlaceholder ==
    /\ value[head] = None
    /\ head \notin PendingNodes
    /\ PendingNodes # {} =>
          /\ next[head] # Null
          /\ ~Removed(next[head])
          /\ \A n \in PendingNodes : ~Older(n, next[head])

\* thread u takes a step of an enqueue call in this transition
EnqStep(u) ==
    /\ pc'[u] # pc[u]
    /\ \/ pc[u] \in {"enq_load_tail", "enq_load_next", "enq_help", "enq_link", "enq_swing"}
       \/ pc[u] = "idle" /\ pc'[u] = "enq_load_tail"

\* C16 (step): a removal CAS that fails finds its first node removed by a dequeue,
\* and no step of an enqueue changes head's next-reference while it holds the
\* first node a dequeue has read and not yet tried to remove.
C16_CasStep ==
    \A t \in Threads :
        /\ (pc[t] = "deq_cas" /\ pc'[t] = "deq_load_head")
               => Removed(loc[t].first_node)
        /\ (/\ pc[t] \in {"deq_load_new_first", "deq_cas"}
            /\ next[loc[t].head] = loc[t].first_node
            /\ \E u \in Threads \ {t} : EnqStep(u))
               => next'[loc[t].head] = loc[t].first_node

\* C16: a dequeue's removal CAS on head's next-reference fails only if another
\* dequeue has removed the first node since this dequeue read it; no enqueue step
\* makes it fail.
C16_CasFailsOnlyByDequeue == [][C16_CasStep]_vars

\* C16 witness: a dequeue is about to run its removal CAS on a first node that
\* another dequeue has removed meanwhile (the CAS will fail), while an enqueue has
\* been made by the other thread.
C16_Witness ==
    \E t \in Threads :
        /\ pc[t] = "deq_cas"
        /\ next[loc[t].head] # loc[t].first_node
        /\ Removed(loc[t].first_node)
        /\ \E i \in DOMAIN ops : ops[i].kind = "enq" /\ ops[i].thr # t

\* C17: tail lag is transient. In every state where no call is in progress, tail
\* references the last node of the chain reachable from head, and equals head
\* exactly when the queue holds no value.
C17_TailSettled ==
    Quiescent =>
        /\ tail = Chain[Len(Chain)]
        /\ (tail = head) <=> (PendingNodes = {})

\* C18 (step): no step writes head, and the step of a winning removal CAS writes
\* the sentinel's next-reference and nothing else of the queue.
C18_HeadStep ==
    /\ head' = head
    /\ \A t \in Threads :
          (pc[t] = "deq_cas" /\ PostWin(t)') =>
              /\ next'[Sentinel] # next[Sentinel]
              /\ \A n \in Nodes \ {Sentinel} : next'[n] = next[n]
              /\ tail' = tail /\ value' = value

\* C18: no step of enqueue or dequeue writes the head reference. After new(), head
\* references the original sentinel in every reachable state, and a removal only
\* overwrites the sentinel's next-reference.
C18_HeadNeverWritten == [][C18_HeadStep]_vars /\ [](head = Sentinel)

\* C18 witness: a dequeue has removed a node, and head is still the sentinel.
C18_Witness ==
    /\ head = Sentinel
    /\ \E n \in Nodes : Removed(n)

\* A node allocated on line 42 that its enqueue has not linked yet (line 54).
Fresh(m) ==
    \E t \in Threads :
        /\ pc[t] \in {"enq_load_tail", "enq_load_next", "enq_help", "enq_link"}
        /\ loc[t].new_tail = m

\* A node that the CAS of line 54 has linked behind another node.
WasLinked(n) == n \in Nodes \ {Sentinel} /\ ~Fresh(n)

\* C19 (step): on a step that writes head or a next-reference (no other step
\* changes what is reachable), a linked node that is not reachable from head stays unreachable;
\* a next-reference of a node other than the sentinel changes only from null to
\* a fresh node; the sentinel's next-reference changes only to null, to a fresh
\* node or to the successor of its current first node.
C19_NextStep ==
    (head' # head \/ next' # next) =>
        /\ \A n \in Reachable' \ Reachable : ~WasLinked(n)
        /\ \A n \in Nodes \ {Sentinel} :
              next'[n] # next[n] => (next[n] = Null /\ Fresh(next'[n]))
        /\ next'[Sentinel] # next[Sentinel] =>
              \/ next'[Sentinel] = Null
              \/ Fresh(next'[Sentinel])
              \/ (next[Sentinel] # Null /\ next'[Sentinel] = next[next[Sentinel]])

\* C19: a node that is not reachable from head after having been linked never
\* becomes reachable from head again; the next-reference of every node other
\* than the sentinel is written at most once (null to a freshly allocated node),
\* and the sentinel's next-reference is only set to null, to a freshly allocated
\* node, or to the successor read from its current first node.
C19_UnlinkedStaysUnlinked == [][C19_NextStep]_vars

\* C19 witness: a linked node is no longer reachable from head, its own
\* next-reference has been written, and the chain holds another node.
C19_Witness ==
    /\ next[Sentinel] # Null
    /\ \E n \in Nodes :
          WasLinked(n) /\ n \notin Reachable /\ next[n] # Null

====
